---- MODULE Spec2Model ----
(***************************************************************************)
(* Model of generate_heatmap.py: one run of gen_heatmap(title, start_year,  *)
(* end_year).  Strings are sequences of characters (or of atomic pieces of  *)
(* text where only the pieces matter), dictionaries keep insertion order,   *)
(* ratings are exact rationals <<numerator, denominator>> and NaN is <<>>.  *)
(* The float32 rounding of the data frame is not modelled.                  *)
(***************************************************************************)
EXTENDS Integers, Sequences, FiniteSets, TLC

VARIABLES
    pc,               \* position of the run in gen_heatmap / its callees
    args,             \* <<title, start_year, end_year>> while still to be read
    url,              \* local "url" of search_imdb (empty outside its frame)
    requests,         \* the requests.get calls issued so far, in order, with
                      \* their outcome (ok = FALSE: the call raised)
    soup,             \* the document parsed last (local "soup"), <<>> before
    error,            \* the exception that ended the run, "" if none
    imdb_id,          \* local imdb_id of get_episode_ratings
    imdb_title,       \* local imdb_title
    season_numbers,   \* local season_numbers (list of labels)
    episode_ratings,  \* local episode_ratings (dict label -> dict position -> str)
    season_idx,       \* index of the outer for loop (0 before the loop)
    ratings,          \* local ratings (tokens of the current season page)
    rating_idx,       \* number of tokens of "ratings" already consumed
    episode_count,    \* local episode_count
    episode_df,       \* the data frame of gen_heatmap
    average_rating,   \* local average_rating (caption), <<tenths>>, <<>> for nan
    figure            \* what fig.savefig wrote, <<>> while nothing is written

vars == <<pc, args, url, requests, soup, error, imdb_id, imdb_title, season_numbers,
          episode_ratings, season_idx, ratings, rating_idx, episode_count,
          episode_df, average_rating, figure>>

----------------------------------------------------------------------------
(* Bounds of the model *)

MaxSeasons == 2
MaxTokens == 2

(* Program constants *)

WideThreshold == 16
FigSide == 8

----------------------------------------------------------------------------
(* Python built-ins used by the program *)

Min2(a, b) == IF a < b THEN a ELSE b
Max2(a, b) == IF a > b THEN a ELSE b

\* s.find(c) for a one-piece needle: 0-based index of the first occurrence, -1 if none
Find(s, c) ==
    IF \E i \in 1..Len(s) : s[i] = c
    THEN (CHOOSE i \in 1..Len(s) : s[i] = c /\ \A j \in 1..(i - 1) : s[j] # c) - 1
    ELSE -1

\* Python index normalisation for slices
SliceIndex(i, n) == IF i < 0 THEN Max2(i + n, 0) ELSE Min2(i, n)

\* s[a:b]
PySlice(s, a, b) ==
    LET lo == SliceIndex(a, Len(s))
        hi == SliceIndex(b, Len(s))
    IN  IF lo < hi THEN SubSeq(s, lo + 1, hi) ELSE <<>>

\* s.replace(c, r) for a one-character c and a replacement text r
RECURSIVE Replace(_, _, _)
Replace(s, c, r) ==
    IF s = <<>> THEN <<>>
    ELSE (IF Head(s) = c THEN r ELSE <<Head(s)>>) \o Replace(Tail(s), c, r)

Digits == <<"0", "1", "2", "3", "4", "5", "6", "7", "8", "9">>

\* str(n) for n >= 0, as in an f-string
RECURSIVE IntToStr(_)
IntToStr(n) ==
    IF n < 10 THEN <<Digits[n + 1]>>
    ELSE IntToStr(n \div 10) \o <<Digits[(n % 10) + 1]>>

\* truthiness of an optional int: None (<<>>) and 0 are false
Truthy(y) == y # <<>> /\ y[1] # 0

----------------------------------------------------------------------------
(* search_imdb, lines 25-32: the URL *)

UrlBase == <<"https://www.imdb.com/search/title/?title=">>
UrlTypes == <<"&title_type=tv_series,tv_miniseries">>
ReleaseDate == "&release_date="

EncodeTitle(title) == Replace(title, " ", <<"%", "2", "0">>)

\* lines 29-30 without the "not start_year" test
StartlessFilter_NoStartTest(start_year, end_year) ==
    IF Truthy(end_year) THEN <<ReleaseDate, ",">> ELSE <<>>

\* lines 29-30
StartlessFilter(start_year, end_year) ==
    IF ~Truthy(start_year) /\ Truthy(end_year) THEN <<ReleaseDate, ",">> ELSE <<>>

\* lines 27-32
DateFilter(start_year, end_year) ==
    (IF Truthy(start_year)
       THEN <<ReleaseDate>> \o IntToStr(start_year[1]) \o <<"-01-01", ",">>
       ELSE <<>>)
    \o StartlessFilter(start_year, end_year)
    \o (IF Truthy(end_year) THEN IntToStr(end_year[1]) \o <<"-12-31">> ELSE <<>>)

BuildSearchUrl(title, start_year, end_year) ==
    UrlBase \o EncodeTitle(title) \o UrlTypes \o DateFilter(start_year, end_year)

----------------------------------------------------------------------------
(* Dictionaries.  The outer dict is a sequence of [k, v] entries in         *)
(* insertion order; an inner dict is a function from its int keys.          *)

HasKey(d, k) == \E i \in 1..Len(d) : d[i].k = k
KeyIndex(d, k) == CHOOSE i \in 1..Len(d) : d[i].k = k
Keys(d) == [i \in 1..Len(d) |-> d[i].k]
Get(d, k) == d[KeyIndex(d, k)].v

\* d[k] = v : an existing key keeps its place and gets the new value
DictSet(d, k, v) ==
    IF HasKey(d, k) THEN [d EXCEPT ![KeyIndex(d, k)].v = v]
    ELSE Append(d, [k |-> k, v |-> v])

EmptyMap == <<>>

\* inner[p] = v
MapSet(m, p, v) == [q \in (DOMAIN m) \cup {p} |-> IF q = p THEN v ELSE m[q]]

\* line 63: {k: {} for k in season_numbers}
RECURSIVE DictFromKeys(_)
DictFromKeys(labels) ==
    IF labels = <<>> THEN <<>>
    ELSE DictSet(DictFromKeys(SubSeq(labels, 1, Len(labels) - 1)),
                 labels[Len(labels)], EmptyMap)

----------------------------------------------------------------------------
(* What the site can answer, within the bounds *)

Titles == { <<"a", " ", "b">>, <<"a", "b">> }
StartYears == { <<>>, <<0>>, <<1999>> }
EndYears == { <<>>, <<0>>, <<2005>> }

Href == <<"/title/", "tt", "0903747", "/?ref", "_=sr_t_1">>
SearchPages == { <<>>, <<Href>> }

ShowTitle == <<"S", " ", "A">>
SubtitleLists == { <<>>, <<ShowTitle>> }

Labels == {"1", "2"}

RECURSIVE SeqsUpTo(_, _)
SeqsUpTo(S, n) ==
    IF n = 0 THEN { <<>> }
    ELSE LET shorter == SeqsUpTo(S, n - 1)
         IN  shorter \cup { Append(q, x) : q \in shorter, x \in S }

SeasonLists == SeqsUpTo(Labels, MaxSeasons)

Tokens == { <<"8", ".", "4", "/", "1", "0">>,     \* "8.4/10"
            <<"7", ".", "5", "6">>,               \* "7.56", no separator
            <<"N", "/", "A">> }                   \* "N/A"

RatingPages == SeqsUpTo(Tokens, MaxTokens)

----------------------------------------------------------------------------
(* search_imdb and get_episode_ratings *)

Init ==
    /\ pc = "start"
    /\ args \in { <<t, s, e>> : t \in Titles, s \in StartYears, e \in EndYears }
    /\ url = <<>>
    /\ requests = <<>>
    /\ soup = <<>>
    /\ error = ""
    /\ imdb_id = <<>>
    /\ imdb_title = <<>>
    /\ season_numbers = <<>>
    /\ episode_ratings = <<>>
    /\ season_idx = 0
    /\ ratings = <<>>
    /\ rating_idx = 0
    /\ episode_count = 0
    /\ episode_df = <<>>
    /\ average_rating = <<>>
    /\ figure = <<>>

\* an exception leaves every frame: the run ends with the exception
Raise(kind) ==
    /\ pc' = "error"
    /\ error' = kind

\* lines 25-32
BuildUrl ==
    /\ pc = "start"
    /\ url' = BuildSearchUrl(args[1], args[2], args[3])
    /\ pc' = "search_get"
    /\ UNCHANGED <<args, requests, soup, error, imdb_id, imdb_title, season_numbers,
                   episode_ratings, season_idx, ratings, rating_idx,
                   episode_count, episode_df, average_rating, figure>>

\* lines 41-43
ExtractId(href) == PySlice(href, Find(href, "tt"), Find(href, "/?ref"))

Request(kind, id, season, ok) ==
    [kind |-> kind, id |-> id, season |-> season, ok |-> ok]

\* lines 33-44 with a fallback identifier when nothing was found
SearchGet_DefaultId ==
    /\ pc = "search_get"
    /\ url' = <<>>
    /\ args' = <<>>
    /\ \/ /\ requests' = Append(requests, Request("search", <<>>, "", FALSE))
          /\ Raise("Timeout")
          /\ UNCHANGED <<imdb_id, soup>>
       \/ \E search_results \in SearchPages :
             /\ requests' = Append(requests, Request("search", <<>>, "", TRUE))
             /\ soup' = [kind |-> "search", results |-> search_results]
             /\ imdb_id' = IF search_results = <<>> THEN <<"tt", "0">>
                           ELSE ExtractId(search_results[1])
             /\ pc' = "landing_get"
             /\ UNCHANGED error
    /\ UNCHANGED <<imdb_title, season_numbers, episode_ratings, season_idx,
                   ratings, rating_idx, episode_count, episode_df,
                   average_rating, figure>>

\* lines 33-44 and the return into line 51; the frame of search_imdb ends
SearchGet ==
    /\ pc = "search_get"
    /\ url' = <<>>
    /\ args' = <<>>
    /\ \/ /\ requests' = Append(requests, Request("search", <<>>, "", FALSE))
          /\ Raise("Timeout")
          /\ UNCHANGED <<imdb_id, soup>>
       \/ \E search_results \in SearchPages :
             /\ requests' = Append(requests, Request("search", <<>>, "", TRUE))
             /\ soup' = [kind |-> "search", results |-> search_results]
             /\ IF search_results = <<>>
                THEN \* line 40: search_results[0] of an empty list
                     Raise("IndexError") /\ UNCHANGED imdb_id
                ELSE /\ imdb_id' = ExtractId(search_results[1])
                     /\ pc' = "landing_get"
                     /\ UNCHANGED error
    /\ UNCHANGED <<imdb_title, season_numbers, episode_ratings, season_idx,
                   ratings, rating_idx, episode_count, episode_df,
                   average_rating, figure>>

\* lines 52-63
LandingGet ==
    /\ pc = "landing_get"
    /\ \/ /\ requests' = Append(requests, Request("landing", imdb_id, "", FALSE))
          /\ Raise("Timeout")
          /\ UNCHANGED <<soup, imdb_title, season_numbers, episode_ratings>>
       \/ \E subtitles \in SubtitleLists, seasons \in SeasonLists :
             /\ requests' = Append(requests, Request("landing", imdb_id, "", TRUE))
             /\ soup' = [kind |-> "landing", h2 |-> subtitles, tabs |-> seasons]
             /\ IF subtitles = <<>>
                THEN \* line 59: [0] of an empty list
                     Raise("IndexError")
                     /\ UNCHANGED <<imdb_title, season_numbers, episode_ratings>>
                ELSE /\ imdb_title' = subtitles[1]
                     /\ season_numbers' = seasons
                     /\ episode_ratings' = DictFromKeys(seasons)
                     /\ pc' = "season_loop"
                     /\ UNCHANGED error
    /\ UNCHANGED <<args, url, imdb_id, season_idx, ratings, rating_idx,
                   episode_count, episode_df, average_rating, figure>>

\* line 83
NextCount(c) == c + 1

\* line 79
FirstCount == 1

\* lines 81-82: rating.text[:rating.text.find("/")]
RatingText(text) == PySlice(text, 0, Find(text, "/"))

\* lines 64-79 with a failed season request skipped
SeasonGet_SkipOnTimeout ==
    /\ pc = "season_loop"
    /\ season_idx < Len(season_numbers)
    /\ \/ /\ requests' = Append(requests, Request("season", imdb_id,
                                       season_numbers[season_idx + 1], FALSE))
          /\ season_idx' = season_idx + 1
          /\ UNCHANGED <<pc, error, soup, ratings, rating_idx, episode_count>>
       \/ \E page \in RatingPages :
             /\ requests' = Append(requests, Request("season", imdb_id,
                                       season_numbers[season_idx + 1], TRUE))
             /\ season_idx' = season_idx + 1
             /\ soup' = [kind |-> "season", spans |-> page]
             /\ ratings' = page
             /\ rating_idx' = 0
             /\ episode_count' = FirstCount
             /\ pc' = IF page = <<>> THEN "season_loop" ELSE "rating_loop"
             /\ UNCHANGED error
    /\ UNCHANGED <<args, url, imdb_id, imdb_title, season_numbers,
                   episode_ratings, episode_df, average_rating, figure>>

\* lines 64-79 with a failed season request issued again
SeasonGet_RetryOnTimeout ==
    /\ pc = "season_loop"
    /\ season_idx < Len(season_numbers)
    /\ \/ /\ Len(requests) < 2 + MaxSeasons
          /\ requests' = Append(requests, Request("season", imdb_id,
                                       season_numbers[season_idx + 1], FALSE))
          /\ UNCHANGED <<pc, error, season_idx, soup, ratings, rating_idx,
                         episode_count>>
       \/ \E page \in RatingPages :
             /\ requests' = Append(requests, Request("season", imdb_id,
                                       season_numbers[season_idx + 1], TRUE))
             /\ season_idx' = season_idx + 1
             /\ soup' = [kind |-> "season", spans |-> page]
             /\ ratings' = page
             /\ rating_idx' = 0
             /\ episode_count' = FirstCount
             /\ pc' = IF page = <<>> THEN "season_loop" ELSE "rating_loop"
             /\ UNCHANGED error
    /\ UNCHANGED <<args, url, imdb_id, imdb_title, season_numbers,
                   episode_ratings, episode_df, average_rating, figure>>

\* lines 64-79: the next season's page is fetched and its tokens found
SeasonGet ==
    /\ pc = "season_loop"
    /\ season_idx < Len(season_numbers)
    /\ \/ /\ requests' = Append(requests, Request("season", imdb_id,
                                       season_numbers[season_idx + 1], FALSE))
          /\ season_idx' = season_idx + 1
          /\ Raise("Timeout")
          /\ UNCHANGED <<soup, ratings, rating_idx, episode_count>>
       \/ \E page \in RatingPages :
             /\ requests' = Append(requests, Request("season", imdb_id,
                                       season_numbers[season_idx + 1], TRUE))
             /\ season_idx' = season_idx + 1
             /\ soup' = [kind |-> "season", spans |-> page]
             /\ ratings' = page
             /\ rating_idx' = 0
             /\ episode_count' = FirstCount
             /\ pc' = IF page = <<>> THEN "season_loop" ELSE "rating_loop"
             /\ UNCHANGED error
    /\ UNCHANGED <<args, url, imdb_id, imdb_title, season_numbers,
                   episode_ratings, episode_df, average_rating, figure>>

\* lines 80-83: one iteration of the inner loop
StoreRating ==
    /\ pc = "rating_loop"
    /\ rating_idx < Len(ratings)
    /\ LET season_number == season_numbers[season_idx]
           text == ratings[rating_idx + 1]
       IN  episode_ratings' =
               DictSet(episode_ratings, season_number,
                       MapSet(Get(episode_ratings, season_number),
                              episode_count, RatingText(text)))
    /\ episode_count' = NextCount(episode_count)
    /\ rating_idx' = rating_idx + 1
    /\ pc' = IF rating_idx + 1 = Len(ratings) THEN "season_loop" ELSE "rating_loop"
    /\ UNCHANGED <<args, url, requests, soup, error, imdb_id, imdb_title,
                   season_numbers, season_idx, ratings, episode_df,
                   average_rating, figure>>

\* line 84
HarvestReturn ==
    /\ pc = "season_loop"
    /\ season_idx = Len(season_numbers)
    /\ pc' = "harvested"
    /\ UNCHANGED <<args, url, requests, soup, error, imdb_id, imdb_title,
                   season_numbers, episode_ratings, season_idx, ratings,
                   rating_idx, episode_count, episode_df, average_rating, figure>>

----------------------------------------------------------------------------
(* Numbers: a rating is <<n, d>> with d > 0 in lowest terms, NaN is <<>>    *)

NaN == <<>>

RECURSIVE GCD(_, _)
GCD(a, b) == IF b = 0 THEN a ELSE GCD(b, a % b)

Norm(n, d) == LET g == GCD(n, d) IN IF g = 0 THEN <<0, 1>> ELSE <<n \div g, d \div g>>
RAdd(a, b) == Norm(a[1] * b[2] + b[1] * a[2], a[2] * b[2])
RDivInt(a, k) == Norm(a[1], a[2] * k)

IsDigit(c) == \E i \in 1..10 : Digits[i] = c
DigitValue(c) == (CHOOSE i \in 1..10 : Digits[i] = c) - 1

RECURSIVE DigitsValue(_)
DigitsValue(s) ==
    IF s = <<>> THEN 0
    ELSE 10 * DigitsValue(SubSeq(s, 1, Len(s) - 1)) + DigitValue(s[Len(s)])

RECURSIVE Pow10(_)
Pow10(n) == IF n = 0 THEN 1 ELSE 10 * Pow10(n - 1)

IntPart(s) == IF Find(s, ".") = -1 THEN s ELSE SubSeq(s, 1, Find(s, "."))
FracPart(s) == IF Find(s, ".") = -1 THEN <<>> ELSE SubSeq(s, Find(s, ".") + 2, Len(s))

\* float(s) succeeds: digits with at most one point and at least one digit
IsFloat(s) ==
    /\ \A i \in 1..Len(IntPart(s)) : IsDigit(IntPart(s)[i])
    /\ \A i \in 1..Len(FracPart(s)) : IsDigit(FracPart(s)[i])
    /\ Len(IntPart(s)) + Len(FracPart(s)) >= 1

\* float(s)
ToFloat(s) == Norm(DigitsValue(IntPart(s) \o FracPart(s)), Pow10(Len(FracPart(s))))

\* sum of the numbers f[x], x in S
RECURSIVE SumOver(_, _)
SumOver(f, S) ==
    IF S = {} THEN <<0, 1>>
    ELSE LET x == CHOOSE y \in S : TRUE
         IN  RAdd(f[x], SumOver(f, S \ {x}))

\* mean with skipna: NaN entries are left out, no entry left gives NaN
MeanSkipNa(f, S) ==
    LET present == { x \in S : f[x] # NaN }
    IN  IF present = {} THEN NaN
        ELSE RDivInt(SumOver(f, present), Cardinality(present))

\* mean that counts a NaN entry as 0
MeanNaAsZero(f, S) ==
    LET present == { x \in S : f[x] # NaN }
    IN  IF S = {} THEN NaN
        ELSE RDivInt(SumOver(f, present), Cardinality(S))

\* round(x, 1), as <<number of tenths>> (ties to even); nan stays nan
Round1(x) ==
    IF x = NaN THEN NaN
    ELSE LET n == 10 * x[1]
             q == n \div x[2]
             r == n % x[2]
         IN  IF 2 * r < x[2] THEN <<q>>
             ELSE IF 2 * r > x[2] THEN <<q + 1>>
             ELSE IF q % 2 = 0 THEN <<q>> ELSE <<q + 1>>

----------------------------------------------------------------------------
(* gen_heatmap: the data frame and the figure *)

\* every stored text of the table converts to float32
Convertible(table) ==
    \A i \in 1..Len(table) : \A p \in DOMAIN table[i].v : IsFloat(table[i].v[p])

\* line 92: pd.DataFrame(data=episode_dict, dtype=np.float32)
\* columns are the keys in order, the index is the union of the inner keys
DataFrame(table) ==
    LET index == UNION { DOMAIN table[i].v : i \in 1..Len(table) }
    IN  [ columns |-> Keys(table),
          index   |-> index,
          cell    |-> [c \in 1..Len(table) |->
                         [r \in index |->
                            IF r \in DOMAIN table[c].v
                            THEN ToFloat(table[c].v[r]) ELSE NaN]],
          avg     |-> <<>> ]

\* line 95 with missing cells counted as zero
ColumnMeans_NaAsZero(df) ==
    [c \in 1..Len(df.columns) |-> MeanNaAsZero(df.cell[c], df.index)]

\* line 95: episode_df.mean(axis=0)
ColumnMeans(df) ==
    [c \in 1..Len(df.columns) |-> MeanSkipNa(df.cell[c], df.index)]

\* the cells of the frame as one function: data cells, then the AVG row
AllCells(df) ==
    [x \in { <<c, r>> : c \in 1..Len(df.columns), r \in df.index }
           \cup { <<c, 0>> : c \in DOMAIN df.avg }
       |-> IF x[2] = 0 THEN df.avg[x[1]] ELSE df.cell[x[1]][x[2]]]

\* the data cells only
DataCells(df) ==
    [x \in { <<c, r>> : c \in 1..Len(df.columns), r \in df.index }
       |-> df.cell[x[1]][x[2]]]

\* line 106 taken over the data rows only
OverallMean_DataOnly(df) == MeanSkipNa(DataCells(df), DOMAIN DataCells(df))

\* line 106: np.mean(episode_df), the mean of every cell of the frame
\* (DataFrame.mean(axis=None, skipna=True): both axes, NaN left out)
OverallMean(df) == MeanSkipNa(AllCells(df), DOMAIN AllCells(df))

\* lines 99-102
Multiplier(num_seasons) == IF num_seasons > WideThreshold THEN 2 ELSE 1

\* line 125
FileName(t) == Replace(t, " ", <<"_">>) \o <<"_Heatmap.png">>

\* lines 91-125 on the table returned by get_episode_ratings
Render ==
    /\ pc = "harvested"
    /\ \/ \* line 92: a stored text that is no float
          /\ ~Convertible(episode_ratings)
          /\ Raise("ValueError")
          /\ UNCHANGED <<episode_df, average_rating, figure>>
       \/ \* line 95: a frame without columns may refuse the new row
          /\ episode_ratings = <<>>
          /\ Raise("ValueError")
          /\ UNCHANGED <<episode_df, average_rating, figure>>
       \/ /\ Convertible(episode_ratings)
          /\ LET df  == DataFrame(episode_ratings)
                 df2 == [df EXCEPT !.avg = ColumnMeans(df)]
             IN  /\ episode_df' = df2
                 /\ average_rating' = Round1(OverallMean(df2))
                 /\ figure' = [ file    |-> FileName(imdb_title),
                                title   |-> imdb_title,
                                width   |-> FigSide * Multiplier(Len(df2.columns)),
                                height  |-> FigSide,
                                caption |-> Round1(OverallMean(df2)) ]
          /\ pc' = "done"
          /\ UNCHANGED error
    /\ UNCHANGED <<args, url, requests, soup, imdb_id, imdb_title,
                   season_numbers, episode_ratings, season_idx, ratings,
                   rating_idx, episode_count>>

Next ==
    \/ BuildUrl
    \/ SearchGet
    \/ LandingGet
    \/ SeasonGet
    \/ StoreRating
    \/ HarvestReturn
    \/ Render

Spec == Init /\ [][Next]_vars

----------------------------------------------------------------------------
(* Properties *)

Returned == pc \in {"harvested", "done"} \/ (pc = "error" /\ error = "ValueError")
AllOk(reqs) == \A i \in 1..Len(reqs) : reqs[i].ok
PresentYear(y) == y # <<>> /\ y[1] # 0

\* C1: a harvest that completes returns a table with exactly one key per
\* season tab of the landing page, in the order the tabs were discovered
\* (repeated labels included).
C1_OneKeyPerSeasonTab ==
    pc = "harvested" =>
        /\ Len(episode_ratings) = Len(season_numbers)
        /\ Keys(episode_ratings) = season_numbers

\* C2: at every step the positions present for each season are {1..k}, and
\* once a season's page is consumed k is the number of rating tokens of that
\* page, position j holding the j-th token of the page.
C2_DensePositionsOfThePage ==
    /\ \A i \in 1..Len(episode_ratings) :
          \E k \in 0..(MaxTokens + 1) : DOMAIN episode_ratings[i].v = 1..k
    /\ (pc \in {"season_loop", "harvested"} /\ season_idx > 0) =>
          LET m == Get(episode_ratings, season_numbers[season_idx])
          IN  /\ DOMAIN m = 1..Len(ratings)
              /\ \A j \in 1..Len(ratings) : m[j] = RatingText(ratings[j])

\* C3: no partial success.  A run in which a request failed or a stored text
\* does not convert ends in an error with no image written; an image is
\* written only when the search, the landing page and every season request
\* succeeded and every stored text converted.
C3_NoPartialSuccess ==
    /\ (~AllOk(requests) \/ error # "") => (pc = "error" /\ error # "" /\ figure = <<>>)
    /\ (Returned /\ ~Convertible(episode_ratings)) => (pc # "done" /\ figure = <<>>)
    /\ figure # <<>> =>
          /\ pc = "done"
          /\ AllOk(requests)
          /\ Len(requests) = 2 + Len(season_numbers)
          /\ Convertible(episode_ratings)

C3_Witness ==
    /\ pc = "error"
    /\ error = "ValueError"
    /\ Len(season_numbers) = 2
    /\ Len(requests) = 4
    /\ ~Convertible(episode_ratings)
    /\ figure = <<>>

\* C4: a search response without results ends the run with the error of the
\* empty list (the resolver's not-found failure): no identifier is returned
\* and no landing-page or season request is issued.
C4_EmptySearchFails ==
    (soup # <<>> /\ soup.kind = "search" /\ soup.results = <<>>) =>
        /\ pc = "error"
        /\ error = "IndexError"
        /\ imdb_id = <<>>
        /\ Len(requests) = 1
        /\ requests[1].kind = "search"

C4_Witness ==
    /\ soup # <<>>
    /\ soup.kind = "search"
    /\ soup.results = <<>>
    /\ pc = "error"

\* C5: a landing page without season tabs makes the harvest fail, so that no
\* empty table is returned to the renderer.
C5_NoSeasonTabsFails ==
    /\ (soup # <<>> /\ soup.kind = "landing" /\ soup.tabs = <<>>) => pc = "error"
    /\ pc = "harvested" => episode_ratings # <<>>

\* C6: every consumed token has a "/" and the text before it is what is
\* stored; a token without "/" is never consumed into the table (the harvest
\* fails instead).
C6_TokenParsing ==
    (pc \in {"rating_loop", "season_loop", "harvested"} /\ rating_idx > 0) =>
        LET m == Get(episode_ratings, season_numbers[season_idx])
            text == ratings[rating_idx]
        IN  /\ Find(text, "/") # -1
            /\ m[episode_count - 1] = SubSeq(text, 1, Find(text, "/"))

\* C7: the requests are the search, then the landing page, then one season
\* request per discovered label in discovery order; none is repeated, only
\* the last one can have failed, a failure ends the run, and a table is
\* returned only after every season request succeeded.
C7_RequestSequence ==
    /\ \A i \in 1..Len(requests) :
          /\ (i = 1) = (requests[i].kind = "search")
          /\ (i = 2) = (requests[i].kind = "landing")
          /\ (i > 2) = (requests[i].kind = "season")
          /\ i >= 2 => requests[i].id = imdb_id
          /\ i > 2 => /\ i - 2 <= Len(season_numbers)
                      /\ requests[i].season = season_numbers[i - 2]
          /\ i < Len(requests) => requests[i].ok
    /\ ~AllOk(requests) => (pc = "error" /\ error = "Timeout")
    /\ Returned => (AllOk(requests) /\ Len(requests) = 2 + Len(season_numbers))
    /\ (pc = "error" /\ error = "Timeout") => ~Returned /\ ~requests[Len(requests)].ok

C7_Witness ==
    /\ pc = "error"
    /\ error = "Timeout"
    /\ Len(season_numbers) = 2
    /\ Len(requests) = 3
    /\ requests[3].kind = "season"
    /\ ~requests[3].ok

\* the mean of the texts of one season's mapping, NaN for an empty mapping
SeasonMean(m) ==
    IF DOMAIN m = {} THEN NaN
    ELSE RDivInt(SumOver([p \in DOMAIN m |-> ToFloat(m[p])], DOMAIN m),
                 Cardinality(DOMAIN m))

\* C8: the grid has one column per season of the table in harvest order, one
\* data row per position of the union of the seasons' positions, a cell is
\* present exactly where the season has the position, and the average row
\* holds for each season the mean of its present ratings only, missing for a
\* season with an empty mapping.
C8_GridAndAverageRow ==
    pc = "done" =>
        /\ episode_df.columns = Keys(episode_ratings)
        /\ episode_df.index =
               { p \in 1..(MaxTokens + 1) :
                   \E i \in 1..Len(episode_ratings) : p \in DOMAIN episode_ratings[i].v }
        /\ DOMAIN episode_df.avg = 1..Len(episode_ratings)
        /\ \A c \in 1..Len(episode_ratings) :
              LET m == episode_ratings[c].v
              IN  /\ \A r \in episode_df.index :
                        episode_df.cell[c][r] =
                            IF r \in DOMAIN m THEN ToFloat(m[r]) ELSE NaN
                  /\ episode_df.avg[c] = SeasonMean(m)
                  /\ (m = EmptyMap) => episode_df.avg[c] = NaN

C8_Witness ==
    /\ pc = "done"
    /\ \E c, d \in 1..Len(episode_ratings) :
          /\ episode_ratings[c].v = EmptyMap
          /\ episode_df.avg[c] = NaN
          /\ Cardinality(DOMAIN episode_ratings[d].v) = 2
          /\ episode_df.avg[d] = <<159, 20>>

\* sum over the columns 1..n of f[c], skipping NaN
RECURSIVE SumPresent(_, _)
SumPresent(f, n) ==
    IF n = 0 THEN <<0, 1>>
    ELSE IF f[n] = NaN THEN SumPresent(f, n - 1)
    ELSE RAdd(f[n], SumPresent(f, n - 1))

RECURSIVE CountEntries(_, _)
CountEntries(table, n) ==
    IF n = 0 THEN 0
    ELSE CountEntries(table, n - 1)
         + (IF table[n].v = EmptyMap THEN 0 ELSE Cardinality(DOMAIN table[n].v) + 1)

\* the mean of every rating of the table together with one average per
\* non-empty season
MeanWithAverages(table) ==
    LET sums == [c \in 1..Len(table) |->
                    IF table[c].v = EmptyMap THEN NaN
                    ELSE RAdd(SumOver([p \in DOMAIN table[c].v |-> ToFloat(table[c].v[p])],
                                      DOMAIN table[c].v),
                              SeasonMean(table[c].v))]
        n == CountEntries(table, Len(table))
    IN  IF n = 0 THEN NaN ELSE RDivInt(SumPresent(sums, Len(table)), n)

\* the mean of the ratings of the table alone
MeanOfRatings(table) ==
    LET sums == [c \in 1..Len(table) |->
                    IF table[c].v = EmptyMap THEN NaN
                    ELSE SumOver([p \in DOMAIN table[c].v |-> ToFloat(table[c].v[p])],
                                 DOMAIN table[c].v)]
        n == CountEntries(table, Len(table))
             - Cardinality({c \in 1..Len(table) : table[c].v # EmptyMap})
    IN  IF n = 0 THEN NaN ELSE RDivInt(SumPresent(sums, Len(table)), n)

\* C9: the caption is the mean, rounded to one decimal, over all present
\* cells of the grid, the cells of the per-season average row included and
\* the missing cells left out.
C9_CaptionIncludesAverageRow ==
    pc = "done" =>
        /\ average_rating = Round1(MeanWithAverages(episode_ratings))
        /\ figure.caption = average_rating

C9_Witness ==
    /\ pc = "done"
    /\ average_rating # NaN
    /\ average_rating = Round1(MeanWithAverages(episode_ratings))
    /\ average_rating # Round1(MeanOfRatings(episode_ratings))

\* C10: the release-date filter of the search URL, for every combination of
\* absent (None or 0) and present years; the parameter occurs at most once
\* and an end date always follows a "release_date=" prefix.
C10_ReleaseDateFilter ==
    pc = "search_get" =>
        LET s == args[2]
            e == args[3]
            head == UrlBase \o EncodeTitle(args[1]) \o UrlTypes
            filter == PySlice(url, Len(head), Len(url))
            from == IF PresentYear(s) THEN IntToStr(s[1]) \o <<"-01-01">> ELSE <<>>
            to == IF PresentYear(e) THEN IntToStr(e[1]) \o <<"-12-31">> ELSE <<>>
        IN  /\ PySlice(url, 0, Len(head)) = head
            /\ (~PresentYear(s) /\ ~PresentYear(e)) => filter = <<>>
            /\ (PresentYear(s) \/ PresentYear(e)) =>
                   filter = <<"&release_date=">> \o from \o <<",">> \o to
            /\ Cardinality({i \in 1..Len(url) : url[i] = "&release_date="}) <= 1
            /\ PresentYear(e) => url[Len(head) + 1] = "&release_date="

C10_Witness ==
    /\ pc = "search_get"
    /\ PresentYear(args[2])
    /\ PresentYear(args[3])
    /\ Cardinality({i \in 1..Len(url) : url[i] = "&release_date="}) = 1

====
